---- MODULE Spec2Model ----
(***************************************************************************)
(* Model of the photo-checker image index (api/handler/handler.go and its  *)
(* copies helper/database, main.go): the record table db.hashes guarded by *)
(* db.mutex, the mode flag db.useML, LoadImages with its worker            *)
(* goroutines, and the request goroutines running FindMatch, AddImage and  *)
(* ToggleMLHandler.                                                        *)
(*                                                                         *)
(* Scores are kept exact: a similarity s percent is stored as the integer  *)
(* s * ScoreScale, so 100 - d/72*100 is stored as 7200 - 100*d.            *)
(***************************************************************************)
EXTENDS Integers, Sequences, FiniteSets, TLC

(* ------------------------------ bounds -------------------------------- *)
\* most entries a directory listing handed to LoadImages holds
MaxFiles == 2
\* most calls the request goroutines start in one behaviour
MaxCalls == 2
\* most entries of the directory in the specification of LoadImages alone
MaxFolder == 7

(* ------------------------- strings and files -------------------------- *)
\* A string is a sequence of one-character strings; "" is << >>.
Upper == <<"A","B","C","D","E","F","G","H","I","J","K","L","M",
           "N","O","P","Q","R","S","T","U","V","W","X","Y","Z">>
Lower == <<"a","b","c","d","e","f","g","h","i","j","k","l","m",
           "n","o","p","q","r","s","t","u","v","w","x","y","z">>

\* strings.ToLower, one character
LowerChar(c) ==
  IF \E i \in DOMAIN Upper : Upper[i] = c
  THEN Lower[CHOOSE i \in DOMAIN Upper : Upper[i] = c]
  ELSE c

\* strings.ToLower
ToLower(s) == [i \in DOMAIN s |-> LowerChar(s[i])]

\* filepath.Ext: the suffix beginning at the final dot of the last path
\* element; empty when there is no dot
Ext(name) ==
  LET dots == {i \in DOMAIN name :
                 /\ name[i] = "."
                 /\ \A j \in i..Len(name) : name[j] # "/"}
  IN  IF dots = {} THEN << >>
      ELSE LET i == CHOOSE k \in dots : \A m \in dots : m <= k
           IN  SubSeq(name, i, Len(name))

supportedExts ==
  { <<".","j","p","g">>, <<".","j","p","e","g">>, <<".","p","n","g">>,
    <<".","g","i","f">>, <<".","b","m","p">>, <<".","t","i","f","f">>,
    <<".","w","e","b","p">> }

\* isImageFile: lookup of the extension in the supported set
isImageFile(ext) == ext \in supportedExts

(* ------------------------------ images -------------------------------- *)
\* A decoded image is named; GrayAt gives its 32x32 grayscale raster, the
\* input of the block loop of computeDCTHash (after imaging.Resize and
\* imaging.Grayscale, which keep a uniform image uniform).
\*   red    uniform (255,0,0), luminance 76
\*   blue   uniform (0,0,255), luminance 29
\*   split  left half black, right half white
\*   tilps  left half white, right half black
Images == {"red", "blue", "split", "tilps"}

GrayAt(img, x, y) ==
  CASE img = "red"   -> 76
    [] img = "blue"  -> 29
    [] img = "split" -> IF x < 16 THEN 0 ELSE 255
    [] img = "tilps" -> IF x < 16 THEN 255 ELSE 0

blockSize == 8
numBlocks == 16

RECURSIVE SumSeq(_)
SumSeq(s) == IF s = << >> THEN 0 ELSE Head(s) + SumSeq(Tail(s))

\* sum of the pixels of block (bx, by); every block holds blockSize^2 pixels
BlockSum(img, bx, by) ==
  SumSeq([k \in 1..(blockSize * blockSize) |->
            GrayAt(img, bx * blockSize + ((k - 1) % blockSize),
                        by * blockSize + ((k - 1) \div blockSize))])

\* computeDCTHash: 16 block bits (block mean >= mean of the block means),
\* then 8 rows of 7 comparisons of samples 4 pixels apart (first > second)
computeDCTHash(img) ==
  LET blockValues == [b \in 1..numBlocks |->
                        BlockSum(img, (b - 1) % 4, (b - 1) \div 4)]
      total == SumSeq(blockValues)
      coarse == [b \in 1..numBlocks |->
                   IF blockValues[b] * numBlocks >= total THEN "1" ELSE "0"]
      fine == [k \in 1..56 |->
                 LET y == (k - 1) \div 7
                     x == (k - 1) % 7
                 IN  IF GrayAt(img, x * 4, y * 4) > GrayAt(img, (x + 1) * 4, y * 4)
                     THEN "1" ELSE "0"]
  IN  coarse \o fine

\* the fingerprint of every image, computed once
Fingerprint == [img \in Images |-> computeDCTHash(img)]

\* length of every fingerprint computeDCTHash emits
HashLen == numBlocks + 8 * 7

\* extractImageFeatures.  The 144 HOG bins are abstracted to two integer
\* components; a uniform image has no gradient, so all its bins are 0.
extractImageFeatures(img) ==
  CASE img = "red"   -> <<0, 0>>
    [] img = "blue"  -> <<0, 0>>
    [] img = "split" -> <<5, 0>>
    [] img = "tilps" -> <<3, 4>>

\* nil slice (imageInfo.Features of a record that stores no features)
NilFeatures == <<"nil">>

(* ------------------------------ scoring ------------------------------- *)
\* scores are stored multiplied by ScoreScale
ScoreScale == HashLen

\* math.Sqrt on the squared norms the model produces
Sqrt(n) == CHOOSE r \in 0..n : r * r <= n /\ (r + 1) * (r + 1) > n

\* hammingDistance: error on a length mismatch, else the number of
\* positions that differ
hammingDistance(hash1, hash2) ==
  IF Len(hash1) # Len(hash2)
  THEN [err |-> TRUE, distance |-> 0]
  ELSE [err |-> FALSE,
        distance |-> Cardinality({i \in 1..Len(hash1) : hash1[i] # hash2[i]})]

\* imageprocessing.HammingDistance: (0, ErrHashLengthMismatch) on a length
\* mismatch, else the number of positions that differ
HammingDistance(hash1, hash2) ==
  IF Len(hash1) # Len(hash2)
  THEN [err |-> TRUE, distance |-> 0]
  ELSE [err |-> FALSE,
        distance |-> Cardinality({i \in 1..Len(hash1) : hash1[i] # hash2[i]})]

\* the float64 that 0.0 / 0.0 yields
NaN == <<"NaN">>

\* mutant of HashSimilarity: the distance is counted from 1
HashSimilarityOffByOne(hash1, hash2) ==
  LET r == HammingDistance(hash1, hash2)
  IN  IF r.err
      THEN [err |-> TRUE, similarity |-> 0]
      ELSE IF Len(hash1) = 0
      THEN [err |-> FALSE, similarity |-> NaN]
      ELSE [err |-> FALSE,
            similarity |-> 100 * ScoreScale
                             - ((r.distance + 1) * 100 * ScoreScale) \div Len(hash1)]

\* imageprocessing.HashSimilarity: (0, err) when HammingDistance fails,
\* else 100 - dist / len(hash1) * 100, which is NaN for two empty strings
HashSimilarity(hash1, hash2) ==
  LET r == HammingDistance(hash1, hash2)
  IN  IF r.err
      THEN [err |-> TRUE, similarity |-> 0]
      ELSE IF Len(hash1) = 0
      THEN [err |-> FALSE, similarity |-> NaN]
      ELSE [err |-> FALSE,
            similarity |-> 100 * ScoreScale
                             - (r.distance * 100 * ScoreScale) \div Len(hash1)]

\* MLImageRecognizer.CompareFeatures: (0, error) on a length mismatch,
\* (0, nil) on a zero norm, else dot / (|a| |b|) * 100
CompareFeatures(features1, features2) ==
  IF Len(features1) # Len(features2)
  THEN [err |-> TRUE, similarity |-> 0]
  ELSE LET dotProduct == SumSeq([i \in DOMAIN features1 |-> features1[i] * features2[i]])
           norm1 == SumSeq([i \in DOMAIN features1 |-> features1[i] * features1[i]])
           norm2 == SumSeq([i \in DOMAIN features1 |-> features2[i] * features2[i]])
       IN  IF norm1 = 0 \/ norm2 = 0
           THEN [err |-> FALSE, similarity |-> 0]
           ELSE [err |-> FALSE,
                 similarity |-> (dotProduct * 100 * ScoreScale)
                                  \div (Sqrt(norm1) * Sqrt(norm2))]

\* cosineSimilarity: 0 on a length mismatch or a zero norm, else
\* dot / (|a| |b|) * 100
cosineSimilarity(a, b) ==
  IF Len(a) # Len(b) THEN 0
  ELSE LET dotProduct == SumSeq([i \in DOMAIN a |-> a[i] * b[i]])
           normA == SumSeq([i \in DOMAIN a |-> a[i] * a[i]])
           normB == SumSeq([i \in DOMAIN a |-> b[i] * b[i]])
       IN  IF normA <= 0 \/ normB <= 0 THEN 0
           ELSE (dotProduct * 100 * ScoreScale) \div (Sqrt(normA) * Sqrt(normB))


(* ------------------------------- state -------------------------------- *)
\* request goroutines (one per HTTP request being served)
Clients == {1, 2}
\* goroutine id of the LoadImages worker started for entry i of the listing
WorkerId(i) == 0 - i
\* no goroutine
NoOne == 0

\* capacity of the threadLimit channel of LoadImages
ThreadLimit == 4

\* values a request may carry as threshold (RecognizeHandler accepts 0..100)
Thresholds == {0, 85}
\* values of the form field "enable"; "" stands for absent or anything else
Enables == {"true", "false", ""}
\* images a request may upload
Uploads == {"red", "split"}

\* entries a directory may hold: name, whether it is a directory, and what
\* imaging.Open makes of the file ("corrupt": it fails)
Catalog ==
  << [name |-> <<"a",".","j","p","g">>,     isDir |-> FALSE, content |-> "split"],
     [name |-> <<"b",".","P","N","G">>,     isDir |-> FALSE, content |-> "tilps"],
     [name |-> <<"c",".","w","e","b","p">>, isDir |-> FALSE, content |-> "tilps"],
     [name |-> <<"d",".","t","x","t">>,     isDir |-> FALSE, content |-> "split"],
     [name |-> <<"e",".","g","i","f">>,     isDir |-> FALSE, content |-> "corrupt"],
     [name |-> <<"f",".","p","n","g">>,     isDir |-> TRUE,  content |-> "corrupt"] >>

\* the listings os.ReadDir may return: runs of the catalog of at most
\* MaxFiles entries
Listings ==
  { SubSeq(Catalog, w[1], w[1] + w[2] - 1) :
      w \in { v \in (1..Len(Catalog)) \X (0..MaxFiles) :
                v[1] + v[2] - 1 <= Len(Catalog) } }

VARIABLES
  hashes,       \* db.hashes: fingerprint -> imageInfo
  mutex,        \* db.mutex: [writer, readers]
  useML,        \* db.useML
  dirState,     \* "ok", "missing" (os.Stat fails) or "unreadable" (ReadDir fails)
  files,        \* what os.ReadDir returns
  lpc,          \* position of the goroutine running LoadImages
  idx,          \* LoadImages: index of the entry the loop is at
  wg,           \* LoadImages: the WaitGroup counter
  threadLimit,  \* LoadImages: tokens held in the threadLimit channel
  wpc,          \* position of each worker goroutine
  cpc,          \* position of each request goroutine
  call,         \* the call each request goroutine is running, with its arguments
  loc,          \* locals and return values of that call
  calls,        \* calls started so far
  extractCalls, \* extractImageFeatures calls made by the current FindMatch call
  offSince      \* the current FindMatch call started with the flag false and
                \* the flag has not been set to true since

vars == << hashes, mutex, useML, dirState, files, lpc, idx, wg, threadLimit,
           wpc, cpc, call, loc, calls, extractCalls, offSince >>

dbVars     == << hashes, mutex, useML >>
loadVars   == << dirState, files, lpc, idx, wg, threadLimit, wpc >>
clientVars == << cpc, call, loc, calls, extractCalls, offSince >>

NoCall == [op |-> "none", img |-> "red", thr |-> 0, enable |-> "",
           filename |-> << >>]
NoLoc  == [method |-> "", isMatch |-> FALSE, bestMatch |-> << >>,
           similarity |-> 0, order |-> << >>, examined |-> 0,
           id |-> << >>, err |-> "", status |-> ""]

\* NewImageDatabase, then main about to call LoadImages
Init ==
  /\ hashes = << >>
  /\ mutex = [writer |-> NoOne, readers |-> {}]
  /\ useML = TRUE
  /\ dirState \in {"ok", "missing", "unreadable"}
  /\ files \in Listings
  /\ dirState # "ok" => files = << >>
  /\ lpc = "stat"
  /\ idx = 1
  /\ wg = 0
  /\ threadLimit = 0
  /\ wpc = [i \in 1..Len(files) |-> "none"]
  /\ cpc = [p \in Clients |-> "idle"]
  /\ call = [p \in Clients |-> NoCall]
  /\ loc = [p \in Clients |-> NoLoc]
  /\ calls = 0
  /\ extractCalls = [p \in Clients |-> 0]
  /\ offSince = [p \in Clients |-> FALSE]

(* --------------------------- the record table -------------------------- *)
\* db.hashes[k] = v
Put(table, k, v) ==
  [x \in DOMAIN table \cup {k} |-> IF x = k THEN v ELSE table[x]]

\* the orders in which a range loop may visit the keys of a map
Orders(table) ==
  LET n == Cardinality(DOMAIN table)
  IN  {o \in [1..n -> DOMAIN table] : \A i, j \in 1..n : i # j => o[i] # o[j]}

(* ------------------------------ sync.RWMutex --------------------------- *)
CanLock  == mutex.writer = NoOne /\ mutex.readers = {}
CanRLock == mutex.writer = NoOne

\* db.mutex.Lock()
Lock(g) == CanLock /\ mutex' = [mutex EXCEPT !.writer = g]
\* db.mutex.Unlock()
Unlock(g) == mutex' = [mutex EXCEPT !.writer = NoOne]
\* db.mutex.RLock()
RLock(g) == CanRLock /\ mutex' = [mutex EXCEPT !.readers = @ \cup {g}]
\* db.mutex.RUnlock()
RUnlock(g) == mutex' = [mutex EXCEPT !.readers = @ \ {g}]


(* ------------------------------ LoadImages ----------------------------- *)
\* os.Stat and os.ReadDir: either failure returns the error before any
\* worker is started
LoadStat ==
  /\ lpc = "stat"
  /\ lpc' = IF dirState = "ok" THEN "loop" ELSE "failed"
  /\ UNCHANGED << dbVars, clientVars, dirState, files, idx, wg, threadLimit, wpc >>

\* mutant of LoadLoop: the extension is looked up as written, not lower-cased
LoadLoopCaseSensitive ==
  /\ lpc = "loop"
  /\ IF idx > Len(files)
     THEN /\ lpc' = "wait"
          /\ UNCHANGED << idx, wg >>
     ELSE IF files[idx].isDir \/ ~isImageFile(Ext(files[idx].name))
     THEN /\ idx' = idx + 1
          /\ UNCHANGED << lpc, wg >>
     ELSE /\ wg' = wg + 1
          /\ lpc' = "send"
          /\ UNCHANGED idx
  /\ UNCHANGED << dbVars, clientVars, dirState, files, threadLimit, wpc >>

\* one pass of the range loop up to wg.Add(1): directories and entries
\* whose lower-cased extension is unsupported are skipped
LoadLoop ==
  /\ lpc = "loop"
  /\ IF idx > Len(files)
     THEN /\ lpc' = "wait"
          /\ UNCHANGED << idx, wg >>
     ELSE IF files[idx].isDir \/ ~isImageFile(ToLower(Ext(files[idx].name)))
     THEN /\ idx' = idx + 1
          /\ UNCHANGED << lpc, wg >>
     ELSE /\ wg' = wg + 1
          /\ lpc' = "send"
          /\ UNCHANGED idx
  /\ UNCHANGED << dbVars, clientVars, dirState, files, threadLimit, wpc >>

\* mutant of LoadSend: the go statement without the send on threadLimit
LoadSendUnbounded ==
  /\ lpc = "send"
  /\ threadLimit' = threadLimit + 1
  /\ wpc' = [wpc EXCEPT ![idx] = "open"]
  /\ idx' = idx + 1
  /\ lpc' = "loop"
  /\ UNCHANGED << dbVars, clientVars, dirState, files, wg >>

\* threadLimit <- struct{}{} (blocks while ThreadLimit tokens are held),
\* then the go statement
LoadSend ==
  /\ lpc = "send"
  /\ threadLimit < ThreadLimit
  /\ threadLimit' = threadLimit + 1
  /\ wpc' = [wpc EXCEPT ![idx] = "open"]
  /\ idx' = idx + 1
  /\ lpc' = "loop"
  /\ UNCHANGED << dbVars, clientVars, dirState, files, wg >>

\* mutant of LoadWait: LoadImages returns without waiting for the workers
LoadWaitNone ==
  /\ lpc = "wait"
  /\ lpc' = "done"
  /\ files' = << >>
  /\ wpc' = << >>
  /\ idx' = 1
  /\ UNCHANGED << dbVars, clientVars, dirState, wg, threadLimit >>

\* wg.Wait(), then return nil; the locals of the call are gone
LoadWait ==
  /\ lpc = "wait"
  /\ wg = 0
  /\ lpc' = "done"
  /\ files' = << >>
  /\ wpc' = << >>
  /\ idx' = 1
  /\ UNCHANGED << dbVars, clientVars, dirState, wg, threadLimit >>

\* the imageInfo a worker builds from entry i
WorkerInfo(i) ==
  [Filename |-> files[i].name,
   Hash     |-> Fingerprint[files[i].content],
   Features |-> extractImageFeatures(files[i].content)]

\* mutant of WorkerOpen: a worker whose file fails to open ends without
\* running its deferred calls
WorkerOpenAbort(i) ==
  /\ wpc[i] = "open"
  /\ wpc' = [wpc EXCEPT ![i] = IF files[i].content = "corrupt"
                                 THEN "exited" ELSE "lock"]
  /\ UNCHANGED << dbVars, clientVars, dirState, files, lpc, idx, wg, threadLimit >>

\* imaging.Open, then computeDCTHash, generateThumbnail and
\* extractImageFeatures; a file that fails to open goes to the deferred calls
WorkerOpen(i) ==
  /\ wpc[i] = "open"
  /\ wpc' = [wpc EXCEPT ![i] = IF files[i].content = "corrupt"
                                 THEN "release" ELSE "lock"]
  /\ UNCHANGED << dbVars, clientVars, dirState, files, lpc, idx, wg, threadLimit >>

\* mutant of WorkerLock: the worker goes to its store without the lock
WorkerLockNone(i) ==
  /\ wpc[i] = "lock"
  /\ wpc' = [wpc EXCEPT ![i] = "store"]
  /\ UNCHANGED << dbVars, clientVars, dirState, files, lpc, idx, wg, threadLimit >>

WorkerLock(i) ==
  /\ wpc[i] = "lock"
  /\ Lock(WorkerId(i))
  /\ wpc' = [wpc EXCEPT ![i] = "store"]
  /\ UNCHANGED << hashes, useML, clientVars, dirState, files, lpc, idx, wg, threadLimit >>

\* mutant of WorkerStore: the record is stored under its file name
WorkerStoreByName(i) ==
  /\ wpc[i] = "store"
  /\ hashes' = Put(hashes, WorkerInfo(i).Filename, WorkerInfo(i))
  /\ wpc' = [wpc EXCEPT ![i] = "unlock"]
  /\ UNCHANGED << mutex, useML, clientVars, dirState, files, lpc, idx, wg, threadLimit >>

\* db.hashes[hash] = info
WorkerStore(i) ==
  /\ wpc[i] = "store"
  /\ hashes' = Put(hashes, WorkerInfo(i).Hash, WorkerInfo(i))
  /\ wpc' = [wpc EXCEPT ![i] = "unlock"]
  /\ UNCHANGED << mutex, useML, clientVars, dirState, files, lpc, idx, wg, threadLimit >>

WorkerUnlock(i) ==
  /\ wpc[i] = "unlock"
  /\ Unlock(WorkerId(i))
  /\ wpc' = [wpc EXCEPT ![i] = "release"]
  /\ UNCHANGED << hashes, useML, clientVars, dirState, files, lpc, idx, wg, threadLimit >>

\* deferred: <-threadLimit
WorkerRelease(i) ==
  /\ wpc[i] = "release"
  /\ threadLimit' = threadLimit - 1
  /\ wpc' = [wpc EXCEPT ![i] = "wgdone"]
  /\ UNCHANGED << dbVars, clientVars, dirState, files, lpc, idx, wg >>

\* deferred: wg.Done()
WorkerDone(i) ==
  /\ wpc[i] = "wgdone"
  /\ wg' = wg - 1
  /\ wpc' = [wpc EXCEPT ![i] = "exited"]
  /\ UNCHANGED << dbVars, clientVars, dirState, files, lpc, idx, threadLimit >>


(* --------------------------- request admission ------------------------- *)
\* A request is taken by the lowest-numbered goroutine that serves none
\* (request goroutines are interchangeable).  main serves requests once
\* LoadImages has returned; before that the model admits one request, so
\* that calls on the database interleave with the workers.
CanStart(p) ==
  /\ cpc[p] = "idle"
  /\ \A q \in Clients : q < p => cpc[q] # "idle"
  /\ calls < MaxCalls
  /\ lpc \in {"done", "failed"} \/ calls = 0

(* ------------------------------- FindMatch ----------------------------- *)
\* the range loop of findMatchByFeatures over the records in the order
\* given: records without features are skipped, a strictly greater
\* similarity replaces the best one; no iteration leaves the loop early
RECURSIVE featureLoop(_, _, _, _)
featureLoop(features, table, order, acc) ==
  IF order = << >> THEN acc
  ELSE LET info == table[Head(order)]
           seen == [acc EXCEPT !.examined = @ + 1]
       IN  IF info.Features = NilFeatures
           THEN featureLoop(features, table, Tail(order), seen)
           ELSE LET similarity == cosineSimilarity(features, info.Features)
                IN  IF similarity > acc.maxSimilarity
                    THEN featureLoop(features, table, Tail(order),
                                     [seen EXCEPT !.maxSimilarity = similarity,
                                                  !.bestMatch = info.Filename])
                    ELSE featureLoop(features, table, Tail(order), seen)

\* mutant of findMatchByFeatures: the loop returns at the first record
\* whose similarity meets the threshold
RECURSIVE greedyLoop(_, _, _, _, _)
greedyLoop(features, similarityThreshold, table, order, examined) ==
  IF order = << >>
  THEN [isMatch |-> FALSE, bestMatch |-> << >>, similarity |-> 0,
        examined |-> examined]
  ELSE LET info == table[Head(order)]
           similarity == cosineSimilarity(features, info.Features)
       IN  IF similarity >= similarityThreshold * ScoreScale
           THEN [isMatch |-> TRUE, bestMatch |-> info.Filename,
                 similarity |-> similarity, examined |-> examined + 1]
           ELSE greedyLoop(features, similarityThreshold, table, Tail(order),
                           examined + 1)

findMatchGreedy(features, similarityThreshold, table, order) ==
  greedyLoop(features, similarityThreshold, table, order, 0)

\* findMatchByFeatures, between RLock and RUnlock
findMatchByFeatures(features, similarityThreshold, table, order) ==
  LET r == featureLoop(features, table, order,
                       [bestMatch |-> << >>, maxSimilarity |-> 0, examined |-> 0])
  IN  [isMatch    |-> r.maxSimilarity >= similarityThreshold * ScoreScale,
       bestMatch  |-> r.bestMatch,
       similarity |-> r.maxSimilarity,
       examined   |-> r.examined]

\* mutant of hashLoop: a length mismatch ends the scan
RECURSIVE hashLoopAbort(_, _, _, _)
hashLoopAbort(uploadedHash, table, order, acc) ==
  IF order = << >> THEN acc
  ELSE LET hash == Head(order)
           d    == hammingDistance(uploadedHash, hash)
           seen == [acc EXCEPT !.examined = @ + 1]
       IN  IF d.err
           THEN seen
           ELSE IF d.distance < acc.minDistance
           THEN hashLoopAbort(uploadedHash, table, Tail(order),
                              [seen EXCEPT !.minDistance = d.distance,
                                           !.bestMatch = table[hash].Filename])
           ELSE hashLoopAbort(uploadedHash, table, Tail(order), seen)

\* the range loop of FindMatch over the records in the order given: a
\* record whose fingerprint length differs is skipped, a strictly smaller
\* distance replaces the best one
RECURSIVE hashLoop(_, _, _, _)
hashLoop(uploadedHash, table, order, acc) ==
  IF order = << >> THEN acc
  ELSE LET hash == Head(order)
           d    == hammingDistance(uploadedHash, hash)
           seen == [acc EXCEPT !.examined = @ + 1]
       IN  IF d.err
           THEN hashLoop(uploadedHash, table, Tail(order), seen)
           ELSE IF d.distance < acc.minDistance
           THEN hashLoop(uploadedHash, table, Tail(order),
                         [seen EXCEPT !.minDistance = d.distance,
                                      !.bestMatch = table[hash].Filename])
           ELSE hashLoop(uploadedHash, table, Tail(order), seen)

\* mutant of hashMatch: the loop is left after its first iteration
hashMatchFirst(uploadedHash, similarityThreshold, table, order, method) ==
  IF Cardinality(DOMAIN table) = 0
  THEN [isMatch |-> FALSE, bestMatch |-> << >>, similarity |-> 0,
        method |-> method, examined |-> 0]
  ELSE LET r == hashLoop(uploadedHash, table, SubSeq(order, 1, 1),
                         [bestMatch |-> << >>, minDistance |-> Len(uploadedHash),
                          examined |-> 0])
           maxDistance == Len(uploadedHash)
           similarity == 100 * ScoreScale
                           - (r.minDistance * 100 * ScoreScale) \div maxDistance
       IN  [isMatch    |-> similarity >= similarityThreshold * ScoreScale,
            bestMatch  |-> r.bestMatch,
            similarity |-> similarity,
            method     |-> "hash",
            examined   |-> r.examined]

\* the fingerprint part of FindMatch, between RLock and RUnlock; method is
\* the value the local has when the part is entered
hashMatch(uploadedHash, similarityThreshold, table, order, method) ==
  IF Cardinality(DOMAIN table) = 0
  THEN [isMatch |-> FALSE, bestMatch |-> << >>, similarity |-> 0,
        method |-> method, examined |-> 0]
  ELSE LET r == hashLoop(uploadedHash, table, order,
                         [bestMatch |-> << >>, minDistance |-> Len(uploadedHash),
                          examined |-> 0])
           maxDistance == Len(uploadedHash)
           similarity == 100 * ScoreScale
                           - (r.minDistance * 100 * ScoreScale) \div maxDistance
       IN  [isMatch    |-> similarity >= similarityThreshold * ScoreScale,
            bestMatch  |-> r.bestMatch,
            similarity |-> similarity,
            method     |-> "hash",
            examined   |-> r.examined]

\* RecognizeHandler calls FindMatch(img, thr); method := "hash"
StartFindMatch(p, img, thr) ==
  /\ CanStart(p)
  /\ calls' = calls + 1
  /\ call' = [call EXCEPT ![p] = [op |-> "FindMatch", img |-> img,
                                  thr |-> thr, enable |-> "",
                                  filename |-> << >>]]
  /\ loc' = [loc EXCEPT ![p] = [NoLoc EXCEPT !.method = "hash"]]
  /\ cpc' = [cpc EXCEPT ![p] = "fm_flag"]
  /\ extractCalls' = [extractCalls EXCEPT ![p] = 0]
  /\ offSince' = [offSince EXCEPT ![p] = ~useML]
  /\ UNCHANGED << dbVars, loadVars >>

\* mutant of FindMatchFlag: the descriptor part runs whatever the flag
FindMatchFlagAlways(p) ==
  /\ cpc[p] = "fm_flag"
  /\ loc' = [loc EXCEPT ![p].method = "ml"]
  /\ extractCalls' = [extractCalls EXCEPT ![p] = @ + 1]
  /\ cpc' = [cpc EXCEPT ![p] = "fm_ml_rlock"]
  /\ UNCHANGED << dbVars, loadVars, call, calls, offSince >>

\* if db.useML { method = "ml"; features := extractImageFeatures(img) ... }
FindMatchFlag(p) ==
  /\ cpc[p] = "fm_flag"
  /\ IF useML
     THEN /\ loc' = [loc EXCEPT ![p].method = "ml"]
          /\ extractCalls' = [extractCalls EXCEPT ![p] = @ + 1]
          /\ cpc' = [cpc EXCEPT ![p] = "fm_ml_rlock"]
     ELSE /\ cpc' = [cpc EXCEPT ![p] = "fm_rlock"]
          /\ UNCHANGED << loc, extractCalls >>
  /\ UNCHANGED << dbVars, loadVars, call, calls, offSince >>

FeatureRLock(p) ==
  /\ cpc[p] = "fm_ml_rlock"
  /\ RLock(p)
  /\ cpc' = [cpc EXCEPT ![p] = "fm_ml_scan"]
  /\ UNCHANGED << hashes, useML, loadVars, call, loc, calls, extractCalls, offSince >>

FeatureScan(p) ==
  /\ cpc[p] = "fm_ml_scan"
  /\ \E order \in Orders(hashes) :
       LET r == findMatchByFeatures(extractImageFeatures(call[p].img),
                                    call[p].thr, hashes, order)
       IN  loc' = [loc EXCEPT ![p].isMatch = r.isMatch,
                              ![p].bestMatch = r.bestMatch,
                              ![p].similarity = r.similarity,
                              ![p].examined = r.examined,
                              ![p].order = order]
  /\ cpc' = [cpc EXCEPT ![p] = "fm_ml_runlock"]
  /\ UNCHANGED << dbVars, loadVars, call, calls, extractCalls, offSince >>

\* the deferred RUnlock of findMatchByFeatures, then
\* if isMatch { return isMatch, matchedImage, similarity, method }
FeatureRUnlock(p) ==
  /\ cpc[p] = "fm_ml_runlock"
  /\ RUnlock(p)
  /\ cpc' = [cpc EXCEPT ![p] = IF loc[p].isMatch THEN "done" ELSE "fm_rlock"]
  /\ loc' = [loc EXCEPT ![p].order = << >>]
  /\ UNCHANGED << hashes, useML, loadVars, call, calls, extractCalls, offSince >>

\* uploadedHash := computeDCTHash(img); db.mutex.RLock()
HashRLock(p) ==
  /\ cpc[p] = "fm_rlock"
  /\ RLock(p)
  /\ cpc' = [cpc EXCEPT ![p] = "fm_scan"]
  /\ UNCHANGED << hashes, useML, loadVars, call, loc, calls, extractCalls, offSince >>

HashScan(p) ==
  /\ cpc[p] = "fm_scan"
  /\ \E order \in Orders(hashes) :
       LET r == hashMatch(Fingerprint[call[p].img], call[p].thr, hashes,
                          order, loc[p].method)
       IN  loc' = [loc EXCEPT ![p].isMatch = r.isMatch,
                              ![p].bestMatch = r.bestMatch,
                              ![p].similarity = r.similarity,
                              ![p].method = r.method,
                              ![p].examined = r.examined,
                              ![p].order = << >>]
  /\ cpc' = [cpc EXCEPT ![p] = "fm_runlock"]
  /\ UNCHANGED << dbVars, loadVars, call, calls, extractCalls, offSince >>

\* the deferred RUnlock of FindMatch
HashRUnlock(p) ==
  /\ cpc[p] = "fm_runlock"
  /\ RUnlock(p)
  /\ cpc' = [cpc EXCEPT ![p] = "done"]
  /\ UNCHANGED << hashes, useML, loadVars, call, loc, calls, extractCalls, offSince >>

(* ------------------------------- AddImage ------------------------------ *)
\* the unique file name AddImageHandler makes from the clock for the n-th
\* request: fmt.Sprintf("%d_%s", time.Now().UnixNano(), filename)
Digits == <<"1", "2", "3", "4", "5", "6", "7", "8", "9">>
UploadName(n) == <<"u", Digits[n]>>

\* the imageInfo AddImage builds
AddInfo(p) ==
  [Filename |-> call[p].filename,
   Hash     |-> Fingerprint[call[p].img],
   Features |-> extractImageFeatures(call[p].img)]

\* AddImageHandler calls AddImage(img, uniqueFilename), which computes the
\* fingerprint, the thumbnail and the features
StartAddImage(p, img) ==
  /\ CanStart(p)
  /\ calls' = calls + 1
  /\ call' = [call EXCEPT ![p] = [op |-> "AddImage", img |-> img,
                                  thr |-> 0, enable |-> "",
                                  filename |-> UploadName(calls + 1)]]
  /\ loc' = [loc EXCEPT ![p] = NoLoc]
  /\ cpc' = [cpc EXCEPT ![p] = "ad_lock"]
  /\ UNCHANGED << dbVars, loadVars, extractCalls, offSince >>

\* mutant of AddLock: AddImage goes to its duplicate scan without the lock
AddLockNone(p) ==
  /\ cpc[p] = "ad_lock"
  /\ cpc' = [cpc EXCEPT ![p] = "ad_check"]
  /\ UNCHANGED << dbVars, loadVars, call, loc, calls, extractCalls, offSince >>

AddLock(p) ==
  /\ cpc[p] = "ad_lock"
  /\ Lock(p)
  /\ cpc' = [cpc EXCEPT ![p] = "ad_check"]
  /\ UNCHANGED << hashes, useML, loadVars, call, loc, calls, extractCalls, offSince >>

\* mutant of AddCheck: the loop compares file names, not fingerprints
AddCheckByName(p) ==
  /\ cpc[p] = "ad_check"
  /\ IF \E k \in DOMAIN hashes : hashes[k].Filename = AddInfo(p).Filename
     THEN /\ loc' = [loc EXCEPT ![p].err = "already exists"]
          /\ cpc' = [cpc EXCEPT ![p] = "ad_unlock"]
     ELSE /\ cpc' = [cpc EXCEPT ![p] = "ad_store"]
          /\ UNCHANGED loc
  /\ UNCHANGED << dbVars, loadVars, call, calls, extractCalls, offSince >>

\* mutant of AddCheck: the duplicate error is returned with the lock held
AddCheckKeepLock(p) ==
  /\ cpc[p] = "ad_check"
  /\ IF \E k \in DOMAIN hashes : hashes[k].Hash = AddInfo(p).Hash
     THEN /\ loc' = [loc EXCEPT ![p].err = "already exists"]
          /\ cpc' = [cpc EXCEPT ![p] = "done"]
     ELSE /\ cpc' = [cpc EXCEPT ![p] = "ad_store"]
          /\ UNCHANGED loc
  /\ UNCHANGED << dbVars, loadVars, call, calls, extractCalls, offSince >>

\* the loop over db.hashes looking for a record with the same Hash
AddCheck(p) ==
  /\ cpc[p] = "ad_check"
  /\ IF \E k \in DOMAIN hashes : hashes[k].Hash = AddInfo(p).Hash
     THEN /\ loc' = [loc EXCEPT ![p].err = "already exists"]
          /\ cpc' = [cpc EXCEPT ![p] = "ad_unlock"]
     ELSE /\ cpc' = [cpc EXCEPT ![p] = "ad_store"]
          /\ UNCHANGED loc
  /\ UNCHANGED << dbVars, loadVars, call, calls, extractCalls, offSince >>

\* db.hashes[hash] = info; return hash, nil
AddStore(p) ==
  /\ cpc[p] = "ad_store"
  /\ hashes' = Put(hashes, AddInfo(p).Hash, AddInfo(p))
  /\ loc' = [loc EXCEPT ![p].id = AddInfo(p).Hash]
  /\ cpc' = [cpc EXCEPT ![p] = "ad_unlock"]
  /\ UNCHANGED << mutex, useML, loadVars, call, calls, extractCalls, offSince >>

\* the deferred Unlock
AddUnlock(p) ==
  /\ cpc[p] = "ad_unlock"
  /\ Unlock(p)
  /\ cpc' = [cpc EXCEPT ![p] = "done"]
  /\ UNCHANGED << hashes, useML, loadVars, call, loc, calls, extractCalls, offSince >>

(* ---------------------------- ToggleMLHandler -------------------------- *)
\* enable := c.DefaultPostForm("enable", ""); the handler takes no lock
ToggleMLHandler(p, enable) ==
  /\ CanStart(p)
  /\ calls' = calls + 1
  /\ call' = [call EXCEPT ![p] = [op |-> "ToggleML", img |-> "red",
                                  thr |-> 0, enable |-> enable,
                                  filename |-> << >>]]
  /\ loc' = [loc EXCEPT ![p] = NoLoc]
  /\ cpc' = [cpc EXCEPT ![p] = "tg_flag"]
  /\ UNCHANGED << dbVars, loadVars, extractCalls, offSince >>

\* mutant of ToggleMLAccess: any value other than "true" clears the flag
ToggleMLAccessClears(p) ==
  /\ cpc[p] = "tg_flag"
  /\ IF call[p].enable = "true"
     THEN /\ useML' = TRUE
          /\ loc' = [loc EXCEPT ![p].status = "enabled"]
          /\ offSince' = [q \in Clients |-> FALSE]
     ELSE /\ useML' = FALSE
          /\ loc' = [loc EXCEPT ![p].status =
                        IF call[p].enable = "false" THEN "disabled"
                        ELSE IF useML THEN "status true" ELSE "status false"]
          /\ UNCHANGED offSince
  /\ cpc' = [cpc EXCEPT ![p] = "done"]
  /\ UNCHANGED << hashes, mutex, loadVars, call, calls, extractCalls >>

\* h.DB.useML = true, h.DB.useML = false, or the read of h.DB.useML for
\* the status response: a plain access of the field
ToggleMLAccess(p) ==
  /\ cpc[p] = "tg_flag"
  /\ IF call[p].enable = "true"
     THEN /\ useML' = TRUE
          /\ loc' = [loc EXCEPT ![p].status = "enabled"]
          /\ offSince' = [q \in Clients |-> FALSE]
     ELSE IF call[p].enable = "false"
     THEN /\ useML' = FALSE
          /\ loc' = [loc EXCEPT ![p].status = "disabled"]
          /\ UNCHANGED offSince
     ELSE /\ loc' = [loc EXCEPT ![p].status =
                        IF useML THEN "status true" ELSE "status false"]
          /\ UNCHANGED << useML, offSince >>
  /\ cpc' = [cpc EXCEPT ![p] = "done"]
  /\ UNCHANGED << hashes, mutex, loadVars, call, calls, extractCalls >>

\* the handler has written its response; the goroutine serves no request
Return(p) ==
  /\ cpc[p] = "done"
  /\ cpc' = [cpc EXCEPT ![p] = "idle"]
  /\ call' = [call EXCEPT ![p] = NoCall]
  /\ loc' = [loc EXCEPT ![p] = NoLoc]
  /\ extractCalls' = [extractCalls EXCEPT ![p] = 0]
  /\ offSince' = [offSince EXCEPT ![p] = FALSE]
  /\ UNCHANGED << dbVars, loadVars, calls >>

(* ---------------------------- specification ---------------------------- *)
Next ==
  \/ LoadStat
  \/ LoadLoop
  \/ LoadSend
  \/ LoadWait
  \/ \E i \in DOMAIN files : WorkerOpen(i)
  \/ \E i \in DOMAIN files : WorkerLock(i)
  \/ \E i \in DOMAIN files : WorkerStore(i)
  \/ \E i \in DOMAIN files : WorkerUnlock(i)
  \/ \E i \in DOMAIN files : WorkerRelease(i)
  \/ \E i \in DOMAIN files : WorkerDone(i)
  \/ \E p \in Clients, img \in Uploads, thr \in Thresholds : StartFindMatch(p, img, thr)
  \/ \E p \in Clients : FindMatchFlag(p)
  \/ \E p \in Clients : FeatureRLock(p)
  \/ \E p \in Clients : FeatureScan(p)
  \/ \E p \in Clients : FeatureRUnlock(p)
  \/ \E p \in Clients : HashRLock(p)
  \/ \E p \in Clients : HashScan(p)
  \/ \E p \in Clients : HashRUnlock(p)
  \/ \E p \in Clients, img \in Uploads : StartAddImage(p, img)
  \/ \E p \in Clients : AddLock(p)
  \/ \E p \in Clients : AddCheck(p)
  \/ \E p \in Clients : AddStore(p)
  \/ \E p \in Clients : AddUnlock(p)
  \/ \E p \in Clients, enable \in Enables : ToggleMLHandler(p, enable)
  \/ \E p \in Clients : ToggleMLAccess(p)
  \/ \E p \in Clients : Return(p)

Spec == Init /\ [][Next]_vars


(* ------------------------------ scheduling ----------------------------- *)
\* a step of the goroutine running LoadImages
LoaderStep == LoadStat \/ LoadLoop \/ LoadSend \/ LoadWait

\* a step of the worker goroutine of entry i
WorkerStep(i) ==
  /\ i \in DOMAIN files
  /\ \/ WorkerOpen(i) \/ WorkerLock(i) \/ WorkerStore(i)
     \/ WorkerUnlock(i) \/ WorkerRelease(i) \/ WorkerDone(i)

\* a step of request goroutine p within the call it is serving
ClientStep(p) ==
  \/ FindMatchFlag(p) \/ FeatureRLock(p) \/ FeatureScan(p) \/ FeatureRUnlock(p)
  \/ HashRLock(p) \/ HashScan(p) \/ HashRUnlock(p)
  \/ AddLock(p) \/ AddCheck(p) \/ AddStore(p) \/ AddUnlock(p)
  \/ ToggleMLAccess(p) \/ Return(p)

\* a step of some goroutine within the operation it is running
Progress ==
  \/ LoaderStep
  \/ \E i \in DOMAIN files : WorkerStep(i)
  \/ \E p \in Clients : ClientStep(p)

\* LoadImages with requests whose arguments are fixed to values that reach
\* every return path: a query for an image that a record matches, that no
\* record matches, or on an empty index; an insert that is or is not a
\* duplicate; the switch to hash-only mode.
FairNext ==
  \/ LoaderStep
  \/ \E i \in DOMAIN files : WorkerStep(i)
  \/ \E p \in Clients : StartFindMatch(p, "split", 85)
  \/ \E p \in Clients : StartAddImage(p, "split")
  \/ \E p \in Clients : ToggleMLHandler(p, "false")
  \/ \E p \in Clients : ClientStep(p)

\* The Go scheduler does not leave every goroutine that can take a step
\* waiting for ever, and every per-file computation finishes.  (Nothing is
\* assumed about requests arriving.)
FairSpec == Init /\ [][FairNext]_vars /\ WF_vars(Progress)

(* ------------------------- LoadImages on its own ----------------------- *)
\* A directory of n entries: the catalog, then further .bmp files whose
\* contents alternate between two uniform images.
Folder(n) ==
  [k \in 1..n |->
     IF k <= Len(Catalog) THEN Catalog[k]
     ELSE [name    |-> <<Lower[k], ".", "b", "m", "p">>,
           isDir   |-> FALSE,
           content |-> IF k % 2 = 1 THEN "red" ELSE "blue"]]

\* main calls LoadImages on a new database; no request is served until it
\* has returned
LoadInit ==
  /\ hashes = << >>
  /\ mutex = [writer |-> NoOne, readers |-> {}]
  /\ useML = TRUE
  /\ dirState \in {"ok", "missing", "unreadable"}
  /\ files \in {Folder(n) : n \in 0..MaxFolder}
  /\ dirState # "ok" => files = << >>
  /\ lpc = "stat"
  /\ idx = 1
  /\ wg = 0
  /\ threadLimit = 0
  /\ wpc = [i \in 1..Len(files) |-> "none"]
  /\ cpc = [p \in Clients |-> "idle"]
  /\ call = [p \in Clients |-> NoCall]
  /\ loc = [p \in Clients |-> NoLoc]
  /\ calls = 0
  /\ extractCalls = [p \in Clients |-> 0]
  /\ offSince = [p \in Clients |-> FALSE]

LoadNext ==
  \/ LoadStat
  \/ LoadLoop
  \/ LoadSend
  \/ LoadWait
  \/ \E i \in DOMAIN files : WorkerOpen(i)
  \/ \E i \in DOMAIN files : WorkerLock(i)
  \/ \E i \in DOMAIN files : WorkerStore(i)
  \/ \E i \in DOMAIN files : WorkerUnlock(i)
  \/ \E i \in DOMAIN files : WorkerRelease(i)
  \/ \E i \in DOMAIN files : WorkerDone(i)

LoadSpec == LoadInit /\ [][LoadNext]_vars

(* --------------------------- queries on their own ---------------------- *)
\* the file name an image is inserted under
FileName(img) ==
  CASE img = "red"   -> <<"r","e","d",".","p","n","g">>
    [] img = "blue"  -> <<"b","l","u","e",".","p","n","g">>
    [] img = "split" -> <<"s","p","l","i","t",".","p","n","g">>
    [] img = "tilps" -> <<"t","i","l","p","s",".","p","n","g">>

\* the table after AddImage(img, FileName(img)) has succeeded for every
\* image of S, on an index that was empty
TableOf(S) ==
  [k \in {Fingerprint[img] : img \in S} |->
     LET img == CHOOSE i \in S : Fingerprint[i] = k
     IN  [Filename |-> FileName(img),
          Hash     |-> k,
          Features |-> extractImageFeatures(img)]]

\* the tables AddImage can build: no two images of S share a fingerprint
QueryTables ==
  {TableOf(S) : S \in {T \in SUBSET Images :
                          \A i, j \in T : i # j => Fingerprint[i] # Fingerprint[j]}}

\* LoadImages has returned from an empty directory, the images of some set
\* have been inserted and the mode flag has been set either way
QueryInit ==
  /\ hashes \in QueryTables
  /\ mutex = [writer |-> NoOne, readers |-> {}]
  /\ useML \in BOOLEAN
  /\ dirState = "ok"
  /\ files = << >>
  /\ lpc = "done"
  /\ idx = 1
  /\ wg = 0
  /\ threadLimit = 0
  /\ wpc = << >>
  /\ cpc = [p \in Clients |-> "idle"]
  /\ call = [p \in Clients |-> NoCall]
  /\ loc = [p \in Clients |-> NoLoc]
  /\ calls = 0
  /\ extractCalls = [p \in Clients |-> 0]
  /\ offSince = [p \in Clients |-> FALSE]

\* requests to /recognize only, with any of the images
QueryNext ==
  \/ \E p \in Clients, img \in Images, thr \in Thresholds : StartFindMatch(p, img, thr)
  \/ \E p \in Clients : FindMatchFlag(p)
  \/ \E p \in Clients : FeatureRLock(p)
  \/ \E p \in Clients : FeatureScan(p)
  \/ \E p \in Clients : FeatureRUnlock(p)
  \/ \E p \in Clients : HashRLock(p)
  \/ \E p \in Clients : HashScan(p)
  \/ \E p \in Clients : HashRUnlock(p)
  \/ \E p \in Clients : Return(p)

QuerySpec == QueryInit /\ [][QueryNext]_vars

(* ------------------- queries on a table of mixed lengths --------------- *)
\* the fingerprint of an image from a generator that emits the block bits
\* only
ShortPrint(img) == SubSeq(Fingerprint[img], 1, numBlocks)

\* a table AddImage built from the uploads, with one more record whose
\* fingerprint has another length (the generator changed length
\* mid-process)
LegacyTables ==
  {Put(TableOf(S), ShortPrint(img),
       [Filename |-> <<"o", "l", "d">> \o FileName(img),
        Hash     |-> ShortPrint(img),
        Features |-> extractImageFeatures(img)]) :
     S \in SUBSET Uploads, img \in Uploads}

LegacyInit ==
  /\ hashes \in LegacyTables
  /\ mutex = [writer |-> NoOne, readers |-> {}]
  /\ useML = FALSE
  /\ dirState = "ok"
  /\ files = << >>
  /\ lpc = "done"
  /\ idx = 1
  /\ wg = 0
  /\ threadLimit = 0
  /\ wpc = << >>
  /\ cpc = [p \in Clients |-> "idle"]
  /\ call = [p \in Clients |-> NoCall]
  /\ loc = [p \in Clients |-> NoLoc]
  /\ calls = 0
  /\ extractCalls = [p \in Clients |-> 0]
  /\ offSince = [p \in Clients |-> FALSE]

\* hash-only requests to /recognize
LegacyNext ==
  \/ \E p \in Clients, img \in Uploads, thr \in Thresholds : StartFindMatch(p, img, thr)
  \/ \E p \in Clients : FindMatchFlag(p)
  \/ \E p \in Clients : HashRLock(p)
  \/ \E p \in Clients : HashScan(p)
  \/ \E p \in Clients : HashRUnlock(p)
  \/ \E p \in Clients : Return(p)

LegacySpec == LegacyInit /\ [][LegacyNext]_vars

(* --------------------------- the pure functions ------------------------ *)
\* feature vectors handed to the similarity functions: of norm 5 or 0, of
\* two or three components
Vectors ==
  { <<5, 0>>, <<3, 4>>, <<0, 5>>, <<0 - 5, 0>>, <<0, 0>>, <<5, 0, 0>> }

\* fingerprints handed to HashSimilarity: every bit string of up to 2
\* characters and the fingerprints of the images
Prints ==
  { << >>, <<"0">>, <<"1">>, <<"0","0">>, <<"0","1">>, <<"1","0">>, <<"1","1">> }
    \cup {Fingerprint[img] : img \in Images}

\* the form field "threshold": absent or empty, not a number, or a number
Requested ==
  { [kind |-> "absent", value |-> 0], [kind |-> "text", value |-> 0] }
    \cup { [kind |-> "number", value |-> v] : v \in {0 - 5, 0 - 1, 0, 1, 50, 85, 99, 100, 101, 150} }

\* the threshold RecognizeHandler hands to FindMatch: 85 unless the field
\* parses to a number within 0..100
parsedThreshold(requested) ==
  IF requested.kind = "number" /\ requested.value >= 0 /\ requested.value <= 100
  THEN requested.value
  ELSE 85

\* a goroutine calls one of the functions and holds what it returned
CallCosineSimilarity(p, a, b) ==
  /\ CanStart(p)
  /\ calls' = calls + 1
  /\ call' = [call EXCEPT ![p] = [op |-> "cosineSimilarity", a |-> a, b |-> b]]
  /\ loc' = [loc EXCEPT ![p] = [err |-> FALSE, similarity |-> cosineSimilarity(a, b)]]
  /\ cpc' = [cpc EXCEPT ![p] = "done"]
  /\ UNCHANGED << dbVars, loadVars, extractCalls, offSince >>

CallCompareFeatures(p, a, b) ==
  /\ CanStart(p)
  /\ calls' = calls + 1
  /\ call' = [call EXCEPT ![p] = [op |-> "CompareFeatures", a |-> a, b |-> b]]
  /\ loc' = [loc EXCEPT ![p] = CompareFeatures(a, b)]
  /\ cpc' = [cpc EXCEPT ![p] = "done"]
  /\ UNCHANGED << dbVars, loadVars, extractCalls, offSince >>

CallHashSimilarity(p, a, b) ==
  /\ CanStart(p)
  /\ calls' = calls + 1
  /\ call' = [call EXCEPT ![p] = [op |-> "HashSimilarity", a |-> a, b |-> b]]
  /\ loc' = [loc EXCEPT ![p] = HashSimilarity(a, b)]
  /\ cpc' = [cpc EXCEPT ![p] = "done"]
  /\ UNCHANGED << dbVars, loadVars, extractCalls, offSince >>

CallParsedThreshold(p, requested) ==
  /\ CanStart(p)
  /\ calls' = calls + 1
  /\ call' = [call EXCEPT ![p] = [op |-> "threshold", a |-> requested.kind,
                                  b |-> requested.value]]
  /\ loc' = [loc EXCEPT ![p] = [err |-> FALSE, similarity |-> parsedThreshold(requested)]]
  /\ cpc' = [cpc EXCEPT ![p] = "done"]
  /\ UNCHANGED << dbVars, loadVars, extractCalls, offSince >>

LibInit ==
  /\ hashes = << >>
  /\ mutex = [writer |-> NoOne, readers |-> {}]
  /\ useML = TRUE
  /\ dirState = "ok"
  /\ files = << >>
  /\ lpc = "done"
  /\ idx = 1
  /\ wg = 0
  /\ threadLimit = 0
  /\ wpc = << >>
  /\ cpc = [p \in Clients |-> "idle"]
  /\ call = [p \in Clients |-> NoCall]
  /\ loc = [p \in Clients |-> NoLoc]
  /\ calls = 0
  /\ extractCalls = [p \in Clients |-> 0]
  /\ offSince = [p \in Clients |-> FALSE]

\* the descriptor similarity functions alone
VectorNext ==
  \/ \E p \in Clients, a \in Vectors, b \in Vectors : CallCosineSimilarity(p, a, b)
  \/ \E p \in Clients, a \in Vectors, b \in Vectors : CallCompareFeatures(p, a, b)
  \/ \E p \in Clients : Return(p)

VectorSpec == LibInit /\ [][VectorNext]_vars

\* HashSimilarity alone
PrintNext ==
  \/ \E p \in Clients, a \in Prints, b \in Prints : CallHashSimilarity(p, a, b)
  \/ \E p \in Clients : Return(p)

PrintSpec == LibInit /\ [][PrintNext]_vars

\* the threshold parsing of RecognizeHandler alone
FormNext ==
  \/ \E p \in Clients, requested \in Requested : CallParsedThreshold(p, requested)
  \/ \E p \in Clients : Return(p)

FormSpec == LibInit /\ [][FormNext]_vars

(* ------------------------ the flag switched off ------------------------ *)
\* the database after NewImageDatabase and h.DB.useML = false, LoadImages
\* about to run
FlagOffInit ==
  /\ hashes = << >>
  /\ mutex = [writer |-> NoOne, readers |-> {}]
  /\ useML = FALSE
  /\ dirState \in {"ok", "missing", "unreadable"}
  /\ files \in Listings
  /\ dirState # "ok" => files = << >>
  /\ lpc = "stat"
  /\ idx = 1
  /\ wg = 0
  /\ threadLimit = 0
  /\ wpc = [i \in 1..Len(files) |-> "none"]
  /\ cpc = [p \in Clients |-> "idle"]
  /\ call = [p \in Clients |-> NoCall]
  /\ loc = [p \in Clients |-> NoLoc]
  /\ calls = 0
  /\ extractCalls = [p \in Clients |-> 0]
  /\ offSince = [p \in Clients |-> FALSE]

FlagOffSpec == FlagOffInit /\ [][Next]_vars

(* ------------------- internal/database: the blended index -------------- *)
\* In internal/database the descriptor is in use when db.mlRecognizer is
\* set; in this part useML holds db.mlRecognizer != nil.  Scores of this
\* part are stored multiplied by 10 * ScoreScale, which keeps
\* 0.3 * hashSimilarity + 0.7 * mlSimilarity a whole number.

\* the vector MLImageRecognizer.ExtractFeatures returns for an image when
\* it succeeds
Embedding(img) ==
  CASE img = "red"   -> <<4, 3>>
    [] img = "blue"  -> <<3, 4>>
    [] img = "split" -> <<5, 0>>
    [] img = "tilps" -> <<0, 5>>

\* what a record holds as Features: the vector of its image, nil (stored
\* without recognizer, or after a failed extraction), or a vector of
\* another dimension
FeatureKinds == {"own", "nil", "long"}

StoredFeatures(img, kind) ==
  CASE kind = "own"  -> Embedding(img)
    [] kind = "nil"  -> NilFeatures
    [] kind = "long" -> Embedding(img) \o <<0>>

\* mutant of blendSimilarity: a failed comparison skips the record
blendSimilaritySkip(recognizer, uploadedFeatures, info, uploadedHash, hash) ==
  LET h == HashSimilarity(uploadedHash, hash)
  IN  IF recognizer /\ uploadedFeatures # NilFeatures /\ info.Features # NilFeatures
      THEN IF h.err
           THEN [skip |-> TRUE, similarity |-> 0]
           ELSE LET ml == CompareFeatures(uploadedFeatures, info.Features)
                IN  IF ml.err
                    THEN [skip |-> TRUE, similarity |-> 0]
                    ELSE [skip |-> FALSE,
                          similarity |-> 3 * h.similarity + 7 * ml.similarity]
      ELSE IF h.err
           THEN [skip |-> TRUE, similarity |-> 0]
           ELSE [skip |-> FALSE, similarity |-> 10 * h.similarity]

\* the body of the range loop of database.FindMatch up to the comparison
\* with bestSimilarity: the score of one record, or continue
blendSimilarity(recognizer, uploadedFeatures, info, uploadedHash, hash) ==
  LET h == HashSimilarity(uploadedHash, hash)
  IN  IF recognizer /\ uploadedFeatures # NilFeatures /\ info.Features # NilFeatures
      THEN IF h.err
           THEN [skip |-> TRUE, similarity |-> 0]
           ELSE LET ml == CompareFeatures(uploadedFeatures, info.Features)
                IN  IF ml.err
                    THEN [skip |-> FALSE, similarity |-> 10 * h.similarity]
                    ELSE [skip |-> FALSE,
                          similarity |-> 3 * h.similarity + 7 * ml.similarity]
      ELSE IF h.err
           THEN [skip |-> TRUE, similarity |-> 0]
           ELSE [skip |-> FALSE, similarity |-> 10 * h.similarity]

\* the range loop of database.FindMatch over the records in the order
\* given: a strictly greater score replaces the best one
RECURSIVE blendLoop(_, _, _, _, _, _)
blendLoop(recognizer, uploadedFeatures, uploadedHash, table, order, acc) ==
  IF order = << >> THEN acc
  ELSE LET hash == Head(order)
           r    == blendSimilarity(recognizer, uploadedFeatures, table[hash],
                                   uploadedHash, hash)
           seen == [acc EXCEPT !.examined = @ + 1]
       IN  IF r.skip
           THEN blendLoop(recognizer, uploadedFeatures, uploadedHash, table,
                          Tail(order), seen)
           ELSE IF r.similarity > acc.bestSimilarity
           THEN blendLoop(recognizer, uploadedFeatures, uploadedHash, table,
                          Tail(order),
                          [seen EXCEPT !.bestSimilarity = r.similarity,
                                       !.bestMatch = table[hash].Filename])
           ELSE blendLoop(recognizer, uploadedFeatures, uploadedHash, table,
                          Tail(order), seen)

\* imageprocessing.RecognizeImage; recognizer is "nil", "unloaded" or
\* "loaded", and ok1, ok2 tell whether the two extractions succeed
RecognizeImage(img1, img2, recognizer, ok1, ok2) ==
  LET h == HashSimilarity(Fingerprint[img1], Fingerprint[img2])
  IN  IF h.err
      THEN [err |-> TRUE, similarity |-> 0]
      ELSE IF recognizer = "loaded"
      THEN IF ~ok1 \/ ~ok2
           THEN [err |-> FALSE, similarity |-> 10 * h.similarity]
           ELSE LET ml == CompareFeatures(Embedding(img1), Embedding(img2))
                IN  IF ml.err
                    THEN [err |-> FALSE, similarity |-> 10 * h.similarity]
                    ELSE [err |-> FALSE,
                          similarity |-> 3 * h.similarity + 7 * ml.similarity]
      ELSE [err |-> FALSE, similarity |-> 10 * h.similarity]

\* uploadedHash := ComputeDCTHash(img), before the lock is asked for
StartBlendFindMatch(p, img, thr) ==
  /\ CanStart(p)
  /\ calls' = calls + 1
  /\ call' = [call EXCEPT ![p] = [op |-> "FindMatch", img |-> img,
                                  thr |-> thr, enable |-> "",
                                  filename |-> << >>]]
  /\ loc' = [loc EXCEPT ![p] = NoLoc]
  /\ cpc' = [cpc EXCEPT ![p] = "bl_rlock"]
  /\ UNCHANGED << dbVars, loadVars, extractCalls, offSince >>

\* db.mutex.RLock(); defer db.mutex.RUnlock(); an empty index returns
\* (false, "", 0.0)
BlendRLock(p) ==
  /\ cpc[p] = "bl_rlock"
  /\ RLock(p)
  /\ cpc' = [cpc EXCEPT ![p] = IF Cardinality(DOMAIN hashes) = 0
                               THEN "bl_runlock" ELSE "bl_extract"]
  /\ UNCHANGED << hashes, useML, loadVars, call, loc, calls, extractCalls, offSince >>

\* uploadedFeatures, err = db.mlRecognizer.ExtractFeatures(img) when the
\* recognizer is set; the extraction succeeds or fails
BlendExtract(p, ok) ==
  /\ cpc[p] = "bl_extract"
  /\ IF useML
     THEN /\ loc' = [loc EXCEPT ![p].err =
                        IF ok THEN "" ELSE "extraction failed"]
          /\ extractCalls' = [extractCalls EXCEPT ![p] = @ + 1]
     ELSE /\ ok
          /\ UNCHANGED << loc, extractCalls >>
  /\ cpc' = [cpc EXCEPT ![p] = "bl_scan"]
  /\ UNCHANGED << dbVars, loadVars, call, calls, offSince >>

\* the loop over db.hashes and isMatch := bestSimilarity >= threshold
BlendScan(p) ==
  /\ cpc[p] = "bl_scan"
  /\ \E order \in Orders(hashes) :
       LET uploadedFeatures == IF useML /\ loc[p].err = ""
                               THEN Embedding(call[p].img) ELSE NilFeatures
           r == blendLoop(useML, uploadedFeatures, Fingerprint[call[p].img],
                          hashes, order,
                          [bestMatch |-> << >>, bestSimilarity |-> 0,
                           examined |-> 0])
       IN  loc' = [loc EXCEPT ![p].isMatch =
                                 r.bestSimilarity >= call[p].thr * 10 * ScoreScale,
                              ![p].bestMatch = r.bestMatch,
                              ![p].similarity = r.bestSimilarity,
                              ![p].examined = r.examined]
  /\ cpc' = [cpc EXCEPT ![p] = "bl_runlock"]
  /\ UNCHANGED << dbVars, loadVars, call, calls, extractCalls, offSince >>

\* the deferred RUnlock of database.FindMatch
BlendRUnlock(p) ==
  /\ cpc[p] = "bl_runlock"
  /\ RUnlock(p)
  /\ cpc' = [cpc EXCEPT ![p] = "done"]
  /\ UNCHANGED << hashes, useML, loadVars, call, loc, calls, extractCalls, offSince >>

\* a goroutine calls RecognizeImage and holds what it returned
CallRecognizeImage(p, img1, img2, recognizer, ok1, ok2) ==
  /\ CanStart(p)
  /\ calls' = calls + 1
  /\ call' = [call EXCEPT ![p] = [op |-> "RecognizeImage", img |-> img1,
                                  thr |-> 0, enable |-> recognizer,
                                  filename |-> << >>,
                                  img2 |-> img2, ok1 |-> ok1, ok2 |-> ok2]]
  /\ loc' = [loc EXCEPT ![p] = RecognizeImage(img1, img2, recognizer, ok1, ok2)]
  /\ cpc' = [cpc EXCEPT ![p] = "done"]
  /\ UNCHANGED << dbVars, loadVars, extractCalls, offSince >>

\* the index after AddImage has stored the images of S, each with the
\* Features of the kind given
BlendTableOf(S, kind) ==
  [k \in {Fingerprint[img] : img \in S} |->
     LET img == CHOOSE i \in S : Fingerprint[i] = k
     IN  [Filename |-> FileName(img),
          Hash     |-> k,
          Features |-> StoredFeatures(img, kind[img])]]

BlendTables ==
  {BlendTableOf(S, kind) : S \in SUBSET Uploads,
                           kind \in [Uploads -> FeatureKinds]}

\* LoadImages has returned, some images have been stored, and
\* SetMLRecognizer has or has not been called
BlendInit ==
  /\ hashes \in BlendTables
  /\ mutex = [writer |-> NoOne, readers |-> {}]
  /\ useML \in BOOLEAN
  /\ dirState = "ok"
  /\ files = << >>
  /\ lpc = "done"
  /\ idx = 1
  /\ wg = 0
  /\ threadLimit = 0
  /\ wpc = << >>
  /\ cpc = [p \in Clients |-> "idle"]
  /\ call = [p \in Clients |-> NoCall]
  /\ loc = [p \in Clients |-> NoLoc]
  /\ calls = 0
  /\ extractCalls = [p \in Clients |-> 0]
  /\ offSince = [p \in Clients |-> FALSE]

\* the images the queries of this part carry: "blue" has the fingerprint
\* of "red" and another vector
Probes == {"blue", "split"}

BlendNext ==
  \/ \E p \in Clients, img \in Probes : StartBlendFindMatch(p, img, 85)
  \/ \E p \in Clients : BlendRLock(p)
  \/ \E p \in Clients, ok \in BOOLEAN : BlendExtract(p, ok)
  \/ \E p \in Clients : BlendScan(p)
  \/ \E p \in Clients : BlendRUnlock(p)
  \/ \E p \in Clients, img2 \in Probes,
        recognizer \in {"nil", "unloaded", "loaded"},
        ok1 \in BOOLEAN, ok2 \in BOOLEAN :
       CallRecognizeImage(p, "red", img2, recognizer, ok1, ok2)
  \/ \E p \in Clients : Return(p)

BlendSpec == BlendInit /\ [][BlendNext]_vars

(* ======================================================================= *)
(*                               properties                                *)
(* ======================================================================= *)
Keys == DOMAIN hashes

AddCalls  == {p \in Clients : call[p].op = "AddImage"}
FindCalls == {p \in Clients : call[p].op = "FindMatch"}

\* the fingerprint of the image request p carries
ImgHash(p) == Fingerprint[call[p].img]

\* smallest member of a non-empty set of numbers
MinOf(S) == CHOOSE m \in S : \A x \in S : m <= x
\* largest member of a non-empty set of numbers
MaxOf(S) == CHOOSE m \in S : \A x \in S : x <= m

\* number of positions at which two equal-length fingerprints differ
Differ(a, b) == Cardinality({i \in 1..HashLen : a[i] # b[i]})

\* descriptor score, times ScoreScale, of the record under key k against
\* the image of request p
DescriptorScore(p, k) ==
  cosineSimilarity(extractImageFeatures(call[p].img), hashes[k].Features)

\* threshold of request p in the unit scores are stored in
Threshold(p) == call[p].thr * ScoreScale

(* ------------------------------------------------------------------ C1 *)
\* C1: AddImage whose fingerprint is already a key of the index ends its
\* duplicate scan with the error "already exists", and from that scan to
\* its return the record table stays as it was; AddImage whose fingerprint
\* is no key goes on to the store, which adds exactly its own record under
\* the fingerprint (still no key then) and returns the fingerprint as id.
C1_DuplicateRejected ==
  [][\A p \in Clients :
       /\ (cpc[p] = "ad_check" /\ cpc'[p] # "ad_check") =>
            /\ hashes' = hashes
            /\ IF ImgHash(p) \in Keys
               THEN /\ cpc'[p] = "ad_unlock"
                    /\ loc'[p].err = "already exists"
                    /\ loc'[p].id = << >>
               ELSE /\ cpc'[p] = "ad_store"
                    /\ loc'[p].err = ""
       /\ (cpc[p] = "ad_store" /\ cpc'[p] # "ad_store") =>
            /\ ImgHash(p) \notin Keys
            /\ hashes' = Put(hashes, ImgHash(p),
                             [Filename |-> call[p].filename,
                              Hash     |-> ImgHash(p),
                              Features |-> extractImageFeatures(call[p].img)])
            /\ loc'[p].id = ImgHash(p)
            /\ loc'[p].err = ""
       /\ (cpc[p] = "ad_unlock" /\ cpc'[p] # "ad_unlock") =>
            /\ hashes' = hashes
            /\ cpc'[p] = "done"
            /\ loc'[p] = loc[p]
            /\ (loc[p].err = "") # (loc[p].id = << >>)
    ]_vars

\* a second AddImage of content an earlier AddImage stored has returned the
\* duplicate error
C1_Witness ==
  \E p \in AddCalls :
    /\ cpc[p] = "done"
    /\ loc[p].err = "already exists"
    /\ ImgHash(p) \in Keys
    /\ hashes[ImgHash(p)].Filename \in {UploadName(n) : n \in 1..MaxCalls}
    /\ hashes[ImgHash(p)].Filename # call[p].filename

(* ------------------------------------------------------------------ C2 *)
\* C2: in every reachable state every record is stored under the key equal
\* to its own Hash field, and no two records share a fingerprint.
C2_UniqueFingerprints ==
  /\ \A k \in Keys : hashes[k].Hash = k
  /\ \A k1, k2 \in Keys : k1 # k2 => hashes[k1].Hash # hashes[k2].Hash

\* the index holds a record stored by a LoadImages worker and one stored by
\* AddImage
C2_Witness ==
  \E k1, k2 \in Keys :
    /\ hashes[k1].Filename \in {UploadName(n) : n \in 1..MaxCalls}
    /\ hashes[k2].Filename \in {Catalog[i].name : i \in DOMAIN Catalog}

(* ------------------------------------------------------------------ C3 *)
\* LoadImages has passed wg.Wait and is about to return nil, and no request
\* has been started, so the records are those the workers stored
LoadReturning == lpc = "wait" /\ wg = 0 /\ calls = 0

\* the entries of the listing that are files with a supported extension,
\* compared case-insensitively
SupportedFiles ==
  {i \in DOMAIN files :
     /\ ~files[i].isDir
     /\ ToLower(Ext(files[i].name)) \in supportedExts}

\* C3 as claimed: when LoadImages returns on a previously empty index, the
\* index holds exactly as many records as the directory holds files with a
\* supported extension.
C3_AsClaimed ==
  LoadReturning => Cardinality(Keys) = Cardinality(SupportedFiles)

\* C3 amended: when LoadImages returns on a previously empty index, the
\* keys of the index are exactly the fingerprints of the supported files
\* that opened, one record for each distinct fingerprint and each record
\* naming one of the files with that fingerprint; so there are at most as
\* many records as supported files, and exactly as many when all of them
\* open and their fingerprints differ pairwise.
C3_OneRecordPerFingerprint ==
  LoadReturning =>
    LET opened == {i \in SupportedFiles : files[i].content # "corrupt"}
        prints == {Fingerprint[files[i].content] : i \in opened}
    IN  /\ Keys = prints
        /\ Cardinality(Keys) <= Cardinality(SupportedFiles)
        /\ \A k \in Keys :
             \E i \in opened : /\ Fingerprint[files[i].content] = k
                               /\ hashes[k].Filename = files[i].name
        /\ (/\ opened = SupportedFiles
            /\ \A i, j \in opened :
                 i # j => Fingerprint[files[i].content] #
                          Fingerprint[files[j].content])
           => Cardinality(Keys) = Cardinality(SupportedFiles)

\* LoadImages returns from a directory holding a supported file with an
\* upper-case extension next to a second supported file
C3_Witness ==
  /\ LoadReturning
  /\ Cardinality(SupportedFiles) = 2
  /\ Cardinality(Keys) = 2
  /\ \E i \in SupportedFiles : Ext(files[i].name) \notin supportedExts

(* ------------------------------------------------------------------ C4 *)
\* C4 as claimed: FindMatch against an index with no records returns
\* matched=false and score 0, whatever the threshold and the mode.  (No
\* record is ever removed, so an index empty now was empty all along.)
C4_EmptyIndexNoMatch ==
  \A p \in FindCalls :
    (cpc[p] = "done" /\ Keys = {}) =>
      /\ ~loc[p].isMatch
      /\ loc[p].similarity = 0

(* ------------------------------------------------------------------ C5 *)
\* C5: a FindMatch that read the flag as false and has scanned a non-empty
\* index has examined every record, holds the score 100 * (1 - dmin / L)
\* with dmin the least Hamming distance to a stored fingerprint, and holds
\* matched = (score >= threshold).
C5_HashOnlyBestScore ==
  \A p \in FindCalls :
    (cpc[p] = "fm_runlock" /\ extractCalls[p] = 0 /\ Keys # {}) =>
      LET dmin == MinOf({Differ(ImgHash(p), k) : k \in Keys})
      IN  /\ loc[p].examined = Cardinality(Keys)
          /\ loc[p].similarity * HashLen = 100 * ScoreScale * (HashLen - dmin)
          /\ loc[p].isMatch <=> (loc[p].similarity >= Threshold(p))
          /\ loc[p].method = "hash"

\* a hash-only FindMatch has scanned two records at different distances and
\* found the nearer one below the threshold
C5_Witness ==
  \E p \in FindCalls :
    /\ cpc[p] = "fm_runlock"
    /\ extractCalls[p] = 0
    /\ Cardinality(Keys) = 2
    /\ \E k1, k2 \in Keys : Differ(ImgHash(p), k1) < Differ(ImgHash(p), k2)
    /\ loc[p].similarity > 0
    /\ call[p].thr > 0

(* ------------------------------------------------------------------ C6 *)
\* the records whose descriptor score meets the threshold of request p
Hits(p) == {k \in Keys : DescriptorScore(p, k) >= Threshold(p)}

\* position in the scan order of the first record that meets the threshold
FirstHit(p) ==
  MinOf({i \in DOMAIN loc[p].order : loc[p].order[i] \in Hits(p)})

\* highest descriptor score in the index, 0 if none is above 0
BestDescriptorScore(p) ==
  MaxOf({0} \cup {DescriptorScore(p, k) : k \in Keys})

C7_FallbackIffNoDescriptorHit ==
  \A p \in FindCalls :
    /\ cpc[p] = "fm_ml_runlock" => (~loc[p].isMatch <=> Hits(p) = {})
    /\ (cpc[p] = "fm_runlock" /\ extractCalls[p] = 1) =>
         IF Keys = {}
         THEN ~loc[p].isMatch /\ loc[p].bestMatch = << >> /\ loc[p].similarity = 0
         ELSE LET dmin == MinOf({Differ(ImgHash(p), k) : k \in Keys})
              IN  /\ loc[p].similarity * HashLen = 100 * ScoreScale * (HashLen - dmin)
                  /\ loc[p].isMatch <=> (loc[p].similarity >= Threshold(p))
                  /\ \/ dmin = HashLen /\ loc[p].bestMatch = << >>
                     \/ \E k \in Keys : /\ Differ(ImgHash(p), k) = dmin
                                        /\ loc[p].bestMatch = hashes[k].Filename

(* ------------------------------------------------------------------ C8 *)
\* C8: a FindMatch call that started while the flag was false, the flag
\* not having been set to true since, has made no call to
\* extractImageFeatures, and returns the method "hash".
C8_NoExtractorWhenOff ==
  \A p \in FindCalls :
    offSince[p] =>
      /\ extractCalls[p] = 0
      /\ cpc[p] \in {"fm_flag", "fm_rlock", "fm_scan", "fm_runlock", "done"}
      /\ cpc[p] = "done" => loc[p].method = "hash"

\* a FindMatch that started after ToggleML set the flag to false has
\* returned
C8_Witness ==
  \E p \in FindCalls :
    /\ offSince[p]
    /\ ~useML
    /\ cpc[p] = "done"
    /\ Keys # {}

(* ------------------------------------------------------------------ C9 *)
\* C9: of two AddImage calls in flight with the same fingerprint that have
\* both returned, at most one returned the fingerprint; and when the
\* record under the fingerprint is the one either of them built (the index
\* did not hold the fingerprint before them), exactly one returned the
\* fingerprint, the one whose record is stored, and the other the error.
C9_OneWinner ==
  \A p, q \in AddCalls :
    (p # q /\ cpc[p] = "done" /\ cpc[q] = "done" /\ ImgHash(p) = ImgHash(q)) =>
      /\ ~(loc[p].err = "" /\ loc[q].err = "")
      /\ ImgHash(p) \in Keys
      /\ hashes[ImgHash(p)].Filename = call[p].filename =>
           /\ loc[p].err = "" /\ loc[p].id = ImgHash(p)
           /\ loc[q].err = "already exists" /\ loc[q].id = << >>

\* two AddImage calls with the same fingerprint ran at once on an index
\* that did not hold it; both have returned
C9_Witness ==
  \E p, q \in AddCalls :
    /\ p # q
    /\ cpc[p] = "done" /\ cpc[q] = "done"
    /\ ImgHash(p) = ImgHash(q)
    /\ hashes[ImgHash(p)].Filename = call[p].filename
    /\ loc[q].err = "already exists"

(* ----------------------------------------------------------------- C10 *)
\* goroutines at a write to the table
Writing ==
  {WorkerId(i) : i \in {j \in DOMAIN wpc : wpc[j] = "store"}}
    \cup {p \in Clients : cpc[p] = "ad_store"}
\* request goroutines in a scan of the table by FindMatch or
\* findMatchByFeatures
Scanning == {p \in Clients : cpc[p] \in {"fm_scan", "fm_ml_scan"}}

\* C10: a goroutine at a write to the table holds the exclusive lock (and
\* AddImage holds it from its duplicate scan on), a FindMatch in either of
\* its scans holds the shared lock, from the scan to its RUnlock; and no
\* write overlaps a scan or another write.
C10_LockDiscipline ==
  /\ \A g \in Writing : mutex.writer = g
  /\ \A p \in Clients :
       cpc[p] \in {"ad_check", "ad_store", "ad_unlock"} => mutex.writer = p
  /\ \A p \in Clients :
       cpc[p] \in {"fm_scan", "fm_ml_scan", "fm_runlock", "fm_ml_runlock"}
         => p \in mutex.readers
  /\ Cardinality(Writing) <= 1
  /\ Writing # {} => Scanning = {}
  /\ mutex.writer # NoOne => mutex.readers = {}

\* a worker is at its store while a request waits for the lock
C10_Witness ==
  /\ \E i \in DOMAIN wpc : wpc[i] = "store"
  /\ \E p \in Clients : cpc[p] \in {"ad_lock", "fm_rlock", "fm_ml_rlock"}

(* ----------------------------------------------------------------- C11 *)
\* request goroutines about to write the flag
FlagWriters ==
  {p \in Clients : cpc[p] = "tg_flag" /\ call[p].enable \in {"true", "false"}}
\* request goroutines about to read the flag
FlagReaders ==
  {p \in Clients : \/ cpc[p] = "fm_flag"
                   \/ cpc[p] = "tg_flag" /\ call[p].enable \notin {"true", "false"}}

\* C11 as claimed: a goroutine about to write the flag holds the exclusive
\* lock, a goroutine about to read it holds the lock (shared or exclusive),
\* and no write of the flag is pending together with a read of it or with
\* another write.
C11_FlagUnderLock ==
  /\ \A p \in FlagWriters : mutex.writer = p
  /\ \A p \in FlagReaders : p \in mutex.readers \/ mutex.writer = p
  /\ \A p \in FlagWriters : FlagReaders = {} /\ FlagWriters = {p}

(* ----------------------------------------------------------------- C13 *)
\* the entries of the listing that imaging.Open accepts
OpenedFiles == {i \in SupportedFiles : files[i].content # "corrupt"}

LiveWorkers == {i \in DOMAIN wpc : wpc[i] \notin {"none", "exited"}}
\* workers running: between the go statement and the deferred
\* <-threadLimit, the first call a worker makes once its body has returned
SlotHolders ==
  {i \in DOMAIN wpc : wpc[i] \in {"open", "lock", "store", "unlock", "release"}}

C14_FailedFileSkipped ==
  [][/\ \A i \in DOMAIN wpc :
          /\ (wpc[i] = "open" /\ wpc'[i] # "open" /\ files[i].content = "corrupt")
                => /\ wpc'[i] = "release"
                   /\ hashes' = hashes
                   /\ lpc' = lpc
          /\ (wpc[i] = "release" /\ wpc'[i] # "release")
                => /\ wpc'[i] = "wgdone"
                   /\ threadLimit' = threadLimit - 1
          /\ (wpc[i] = "wgdone" /\ wpc'[i] # "wgdone")
                => /\ wpc'[i] = "exited"
                   /\ wg' = wg - 1
     /\ (lpc = "wait" /\ lpc' # "wait")
          => /\ lpc' = "done"
             /\ dirState = "ok"
             /\ \A i \in SupportedFiles : wpc[i] = "exited"
             /\ threadLimit = 0 /\ wg = 0
             /\ calls = 0 =>
                  Keys = {Fingerprint[files[i].content] : i \in OpenedFiles}
     /\ (lpc = "stat" /\ lpc' # "stat")
          => /\ lpc' = (IF dirState = "ok" THEN "loop" ELSE "failed")
             /\ hashes' = hashes
             /\ \A i \in DOMAIN wpc' : wpc'[i] = "none"
             /\ wg' = 0 /\ threadLimit' = 0
     /\ lpc' = "failed" => (dirState # "ok" /\ lpc \in {"stat", "failed"})
     /\ lpc = "failed"
          => (lpc' = "failed" /\ wg' = 0 /\ threadLimit' = 0 /\ wpc' = wpc)
    ]_vars

\* LoadImages is about to return nil: the worker of a file that failed to
\* open has finished, and a file listed after it is in the index
C14_Witness ==
  /\ lpc = "wait" /\ wg = 0 /\ threadLimit = 0
  /\ \E i, j \in SupportedFiles :
       /\ i < j
       /\ files[i].content = "corrupt" /\ wpc[i] = "exited"
       /\ j \in OpenedFiles
       /\ \E k \in Keys : hashes[k].Filename = files[j].name

(* ----------------------------------------------------------------- C15 *)
\* goroutines that have called Lock or RLock and not returned from it
LockRequesters ==
  {WorkerId(i) : i \in {j \in DOMAIN wpc : wpc[j] = "lock"}}
    \cup {p \in Clients : cpc[p] \in {"ad_lock", "fm_rlock", "fm_ml_rlock"}}

\* some goroutine has an operation under way
Busy == lpc \notin {"done", "failed"} \/ \E p \in Clients : cpc[p] # "idle"

\* the lock is held only by goroutines inside the section it brackets (so
\* it has been released on every path out of one, the duplicate-error and
\* empty-index returns included), no goroutine asks for the lock while it
\* holds it, and while an operation is under way some goroutine can step
NoBlocking ==
  /\ mutex.writer \in
       {NoOne}
         \cup {WorkerId(i) : i \in {j \in DOMAIN wpc : wpc[j] \in {"store", "unlock"}}}
         \cup {p \in Clients : cpc[p] \in {"ad_check", "ad_store", "ad_unlock"}}
  /\ mutex.readers \subseteq
       {p \in Clients :
          cpc[p] \in {"fm_ml_scan", "fm_ml_runlock", "fm_scan", "fm_runlock"}}
  /\ \A g \in LockRequesters : g # mutex.writer /\ g \notin mutex.readers
  /\ Busy => ENABLED Progress

\* LoadImages has returned and no call is in progress
Quiet == lpc \in {"done", "failed"} /\ \A p \in Clients : cpc[p] = "idle"

C16_RecordsImmutable ==
  [][calls = 0 =>
       \A k \in DOMAIN hashes :
         k \in DOMAIN hashes' /\ hashes'[k] = hashes[k]]_vars

(* ----------------------------------------------------------------- C17 *)
\* C17 as claimed: on the index that holds only the record of the solid
\* red image inserted as red.png, a hash-only query with threshold 85
\* returns matched, red.png, 100 and "hash" for the solid red image, and
\* not matched with a score below 85 for the solid blue image.
C17_RedBlueScenario ==
  \A p \in FindCalls :
    (/\ cpc[p] = "done"
     /\ hashes = TableOf({"red"})
     /\ extractCalls[p] = 0
     /\ call[p].thr = 85) =>
      /\ call[p].img = "red" =>
           /\ loc[p].isMatch
           /\ loc[p].bestMatch = FileName("red")
           /\ loc[p].similarity = 100 * ScoreScale
           /\ loc[p].method = "hash"
      /\ call[p].img = "blue" =>
           /\ ~loc[p].isMatch
           /\ loc[p].similarity < 85 * ScoreScale

(* ----------------------------------------------------------------- C18 *)
\* C18 as claimed, for queries with a threshold above 0: FindMatch returns
\* the method "ml" only when it returns a match and some record's
\* descriptor score meets the threshold, and whenever FindMatch has gone
\* through its fingerprint part (hash-only mode, and the fallback of
\* hybrid mode, the empty index included) the method it returns is "hash".
C18_MethodNamesPath ==
  \A p \in FindCalls :
    call[p].thr > 0 =>
      /\ (cpc[p] = "done" /\ loc[p].method = "ml") =>
           (loc[p].isMatch /\ Hits(p) # {})
      /\ cpc[p] = "fm_runlock" => loc[p].method = "hash"

(* ----------------------------------------------------------------- C19 *)
\* C19 as claimed: a FindMatch that returns matched=false returns the
\* empty filename (RecognizeHandler copies the filename FindMatch returns
\* into matched_image on both branches).
C19_NoMatchNoFilename ==
  \A p \in FindCalls :
    (cpc[p] = "done" /\ ~loc[p].isMatch) => loc[p].bestMatch = << >>

(* ----------------------------------------------------------------- C20 *)
\* the keys whose length is that of the fingerprints computeDCTHash emits
SameLengthKeys == {k \in Keys : Len(k) = HashLen}

\* C20: against a key of another length HammingDistance, HashSimilarity
\* and hammingDistance return the error and the zero value, against a key
\* of the same length a distance and a score; and the fingerprint scan of
\* FindMatch has examined every record, skipped those of another length,
\* and holds the best match among the others: the score of the least
\* distance, the file name of a record at that distance, and matched =
\* (score >= threshold).
C20_LengthMismatchSkipped ==
  \A p \in FindCalls :
    /\ \A k \in Keys :
         LET h == HammingDistance(ImgHash(p), k)
             s == HashSimilarity(ImgHash(p), k)
             d == hammingDistance(ImgHash(p), k)
         IN  IF Len(k) # HashLen
             THEN /\ h = [err |-> TRUE, distance |-> 0]
                  /\ s = [err |-> TRUE, similarity |-> 0]
                  /\ d.err
             ELSE /\ h = [err |-> FALSE, distance |-> Differ(ImgHash(p), k)]
                  /\ s.err = FALSE
                  /\ s.similarity * HashLen =
                       100 * ScoreScale * (HashLen - Differ(ImgHash(p), k))
                  /\ d = h
    /\ cpc[p] = "fm_runlock" =>
         /\ loc[p].examined = Cardinality(Keys)
         /\ loc[p].isMatch <=> (loc[p].similarity >= Threshold(p))
         /\ IF SameLengthKeys = {}
            THEN loc[p].similarity = 0 /\ loc[p].bestMatch = << >>
            ELSE LET dmin == MinOf({Differ(ImgHash(p), k) : k \in SameLengthKeys})
                 IN  /\ loc[p].similarity * HashLen =
                          100 * ScoreScale * (HashLen - dmin)
                     /\ \/ dmin = HashLen /\ loc[p].bestMatch = << >>
                        \/ \E k \in SameLengthKeys :
                             /\ Differ(ImgHash(p), k) = dmin
                             /\ loc[p].bestMatch = hashes[k].Filename

\* a scan over a record of another length and two records of the right
\* length, at different distances, has returned the nearer one as a match
C20_Witness ==
  \E p \in FindCalls :
    /\ cpc[p] = "fm_runlock"
    /\ Keys # SameLengthKeys
    /\ Cardinality(SameLengthKeys) = 2
    /\ loc[p].examined = 3
    /\ loc[p].isMatch /\ call[p].thr = 85
    /\ \E k \in SameLengthKeys : Differ(ImgHash(p), k) > 0
    /\ \E k \in SameLengthKeys : loc[p].bestMatch = hashes[k].Filename

(* ----------------------------------------------------------------- C21 *)
\* the calls of the two descriptor similarity functions that have returned
VectorCalls ==
  {p \in Clients : cpc[p] = "done"
                     /\ call[p].op \in {"cosineSimilarity", "CompareFeatures"}}

\* the squared magnitude of a vector
NormSq(v) == SumSeq([i \in DOMAIN v |-> v[i] * v[i]])
\* the dot product of two vectors of one length
Dot(a, b) == SumSeq([i \in DOMAIN a |-> a[i] * b[i]])

\* C21: the descriptor similarity functions (cosineSimilarity,
\* CompareFeatures) return the score 0 and no error when the two vectors
\* have different lengths and when either vector has zero magnitude.
C21_ZeroNotError ==
  \A p \in VectorCalls :
    (\/ Len(call[p].a) # Len(call[p].b)
     \/ NormSq(call[p].a) = 0
     \/ NormSq(call[p].b) = 0)
      => loc[p] = [err |-> FALSE, similarity |-> 0]

(* ----------------------------------------------------------------- C22 *)
\* C22: for two non-zero vectors of one length the descriptor similarity
\* is the cosine mapped linearly from [-1, 1] onto [0, 100], that is
\* 50 + 50 * cosine, and so lies within 0..100.
C22_CosineRescaled ==
  \A p \in VectorCalls :
    (/\ Len(call[p].a) = Len(call[p].b)
     /\ NormSq(call[p].a) > 0
     /\ NormSq(call[p].b) > 0)
      => LET n == Sqrt(NormSq(call[p].a)) * Sqrt(NormSq(call[p].b))
         IN  /\ loc[p].err = FALSE
             /\ loc[p].similarity >= 0
             /\ loc[p].similarity <= 100 * ScoreScale
             /\ loc[p].similarity * n =
                  50 * ScoreScale * (n + Dot(call[p].a, call[p].b))

(* ----------------------------------------------------------------- C24 *)
\* C24: the recognise entry point clamps the requested threshold into
\* 0..100: a number above 100 is used as 100, a number below 0 as 0, and
\* FindMatch is never handed a threshold outside 0..100.
C24_ThresholdClamped ==
  \A p \in Clients :
    (cpc[p] = "done" /\ call[p].op = "threshold") =>
      /\ loc[p].similarity >= 0
      /\ loc[p].similarity <= 100
      /\ (call[p].a = "number" =>
            loc[p].similarity = (IF call[p].b > 100 THEN 100
                                 ELSE IF call[p].b < 0 THEN 0
                                 ELSE call[p].b))

(* ----------------------------------------------------------------- C25 *)
\* C25: ToggleML with enable = "true" sets the flag, with "false" clears
\* it and answers "ML disabled", with the field absent or of any other
\* value leaves the flag as it is and reports it; no step of the handler
\* changes the record table.
C25_ToggleFlagOnly ==
  [][\A p \in Clients :
       /\ (cpc[p] = "idle" /\ cpc'[p] = "tg_flag") =>
            (hashes' = hashes /\ useML' = useML)
       /\ (cpc[p] = "tg_flag" /\ cpc'[p] = "done") =>
            /\ hashes' = hashes
            /\ (call[p].enable = "true" =>
                  (useML' = TRUE /\ loc'[p].status = "enabled"))
            /\ (call[p].enable = "false" =>
                  (useML' = FALSE /\ loc'[p].status = "disabled"))
            /\ (call[p].enable \notin {"true", "false"} =>
                  (/\ useML' = useML
                   /\ loc'[p].status =
                        (IF useML THEN "status true" ELSE "status false")))]_vars

\* over a loaded index one request has switched the flag off and another,
\* without the field, has reported it off
C25_Witness ==
  /\ Keys # {}
  /\ useML = FALSE
  /\ \E p \in Clients, q \in Clients :
       /\ call[p].op = "ToggleML" /\ call[q].op = "ToggleML"
       /\ cpc[p] = "done" /\ cpc[q] = "done"
       /\ call[p].enable = "false" /\ loc[p].status = "disabled"
       /\ call[q].enable = "" /\ loc[q].status = "status false"

(* ----------------------------------------------------------------- C26 *)
\* number of positions at which two strings of one length differ
Mismatches(a, b) == Cardinality({i \in DOMAIN a : a[i] # b[i]})

\* C26: HashSimilarity of a non-empty fingerprint with itself is 100, and
\* for two fingerprints of one length HashSimilarity(a, b) equals
\* HashSimilarity(b, a).
C26_ReflexiveSymmetric ==
  \A p \in Clients :
    (/\ cpc[p] = "done" /\ call[p].op = "HashSimilarity"
     /\ Len(call[p].a) = Len(call[p].b)
     /\ Len(call[p].a) > 0) =>
      /\ loc[p].err = FALSE
      /\ loc[p] = HashSimilarity(call[p].b, call[p].a)
      /\ loc[p].similarity * Len(call[p].a) =
           100 * ScoreScale * (Len(call[p].a) - Mismatches(call[p].a, call[p].b))
      /\ call[p].a = call[p].b => loc[p].similarity = 100 * ScoreScale

\* one call has compared a fingerprint of an image with itself, another
\* two different fingerprints of one length
C26_Witness ==
  \E p \in Clients, q \in Clients :
    /\ cpc[p] = "done" /\ call[p].op = "HashSimilarity"
    /\ cpc[q] = "done" /\ call[q].op = "HashSimilarity"
    /\ Len(call[p].a) = HashLen /\ call[p].a = call[p].b
    /\ loc[p].similarity = 100 * ScoreScale
    /\ Len(call[q].a) = Len(call[q].b) /\ call[q].a # call[q].b
    /\ loc[q].similarity < 100 * ScoreScale

(* ----------------------------------------------------------------- C23 *)
\* the calls of database.FindMatch
BlendCalls == {p \in Clients : call[p].op = "FindMatch"}

\* fingerprint score, times ScoreScale, of two fingerprints of HashLen
\* characters
PrintScore(a, b) == (100 * ScoreScale * (HashLen - Differ(a, b))) \div HashLen

\* cosine of two non-zero vectors of one length, times 100 * ScoreScale
VectorScore(a, b) ==
  (Dot(a, b) * 100 * ScoreScale) \div (Sqrt(NormSq(a)) * Sqrt(NormSq(b)))

\* the descriptor score of the record under key k is available to the
\* query of p: a recognizer is set, the extraction on the query image
\* succeeded, the record holds features, and the comparison succeeds
Available(p, k) ==
  /\ useML
  /\ loc[p].err = ""
  /\ hashes[k].Features # NilFeatures
  /\ Len(hashes[k].Features) = Len(Embedding(call[p].img))

\* the score the claim gives the record under key k, times 10 * ScoreScale
BlendedScore(p, k) ==
  IF Available(p, k)
  THEN 3 * PrintScore(ImgHash(p), k)
         + 7 * VectorScore(Embedding(call[p].img), hashes[k].Features)
  ELSE 10 * PrintScore(ImgHash(p), k)

\* the next step of the query of p
BlendStep(p) ==
  \/ BlendRLock(p)
  \/ \E ok \in BOOLEAN : BlendExtract(p, ok)
  \/ BlendScan(p)
  \/ BlendRUnlock(p)

\* C23: the blended index scores a record 0.3 * fingerprint score +
\* 0.7 * descriptor score when both are available, and exactly the
\* fingerprint score when the descriptor is unavailable (no recognizer,
\* failed extraction, record without features, failed comparison); the
\* scan returns the best of these scores and the query can always take
\* its next step.  RecognizeImage scores two images the same way.
C23_BlendOrFallback ==
  /\ \A p \in BlendCalls :
       /\ cpc[p] \in {"bl_rlock", "bl_extract", "bl_scan", "bl_runlock"}
            => ENABLED BlendStep(p)
       /\ (cpc[p] = "bl_runlock" /\ Keys # {}) =>
            /\ loc[p].examined = Cardinality(Keys)
            /\ loc[p].similarity = MaxOf({BlendedScore(p, k) : k \in Keys})
            /\ loc[p].isMatch <=>
                 (loc[p].similarity >= Threshold(p) * 10)
            /\ \E k \in Keys :
                 /\ BlendedScore(p, k) = loc[p].similarity
                 /\ loc[p].bestMatch = hashes[k].Filename
  /\ \A p \in Clients :
       (cpc[p] = "done" /\ call[p].op = "RecognizeImage") =>
         LET h1 == Fingerprint[call[p].img]
             h2 == Fingerprint[call[p].img2]
             f1 == Embedding(call[p].img)
             f2 == Embedding(call[p].img2)
         IN  /\ loc[p].err = FALSE
             /\ loc[p].similarity =
                  (IF call[p].enable = "loaded" /\ call[p].ok1 /\ call[p].ok2
                   THEN 3 * PrintScore(h1, h2) + 7 * VectorScore(f1, f2)
                   ELSE 10 * PrintScore(h1, h2))

\* a scan over two records, one with and one without an available
\* descriptor score, has returned a blended score as a match, and another
\* goroutine holds the blended score RecognizeImage returned
C23_Witness ==
  \E p \in BlendCalls, q \in Clients :
    /\ cpc[p] = "bl_runlock"
    /\ Cardinality(Keys) = 2
    /\ \E k \in Keys : Available(p, k) /\ loc[p].similarity = BlendedScore(p, k)
                         /\ BlendedScore(p, k) # 10 * PrintScore(ImgHash(p), k)
    /\ \E k \in Keys : ~Available(p, k)
    /\ loc[p].isMatch
    /\ cpc[q] = "done" /\ call[q].op = "RecognizeImage"
    /\ call[q].enable = "loaded" /\ call[q].ok1 /\ call[q].ok2
    /\ loc[q].similarity < 1000 * ScoreScale

(* ----------------------------------------------------------------- C27 *)
\* C27: no fingerprint, descriptor or thumbnail is computed while the
\* index lock is held: a query that is about to extract the descriptor of
\* its image holds the lock neither shared nor exclusively.
C27_NoComputeUnderLock ==
  \A p \in BlendCalls :
    (cpc[p] = "bl_extract" /\ useML) =>
      (p \notin mutex.readers /\ mutex.writer # p)

(* ----------------------------------------------------------------- C28 *)
\* hybrid queries between their two scans: the descriptor scan has ended
\* without a match and the fingerprint scan has not yet taken the lock
BetweenScans ==
  {p \in FindCalls : cpc[p] = "fm_rlock" /\ extractCalls[p] > 0}

C29_MatchNamesRecord ==
  \A p \in FindCalls :
    (cpc[p] = "done" /\ loc[p].isMatch /\ Keys # {}) =>
      /\ loc[p].bestMatch # << >>
      /\ \E k \in Keys : hashes[k].Filename = loc[p].bestMatch

(* ----------------------------------------------------------------- C30 *)
\* C30: after AddImage(img, f) has succeeded, a hash-only FindMatch(img, t)
\* that scans the index later returns matched = true, the filename f and
\* the score 100, whatever operations ran in between.
C30_AddedImageFound ==
  \A p \in FindCalls, q \in AddCalls :
    (/\ cpc[q] = "done" /\ loc[q].err = ""
     /\ cpc[p] = "fm_runlock" /\ extractCalls[p] = 0
     /\ call[p].img = call[q].img) =>
      /\ loc[p].isMatch
      /\ loc[p].similarity = 100 * ScoreScale
      /\ loc[p].bestMatch = call[q].filename

====
